---- MODULE Spec2Model ----
(***************************************************************************)
(* Model of CV_DNN_Application/Main.cpp: a single-threaded command-line    *)
(* program that loads a Caffe network, classifies one image and prints the *)
(* best class.  The state is the local state of doDnn/readClassNames, the  *)
(* two output streams and the record of calls made into the OpenCV         *)
(* library.  The library (readNetFromCaffe, imread, setInput, forward,     *)
(* minMaxLoc) is the environment: its results are drawn from small sets.   *)
(* The "help" option only prints the usage text and is left out.           *)
(***************************************************************************)
EXTENDS Integers, Sequences, FiniteSets

VARIABLES
    pc,            \* position in doDnn / readClassNames
    args,          \* parsed options: proto, model, image, opencl
    net,           \* cv::dnn::Net handle: [empty, deterministic, target]
    bound,         \* input bound on the net by setInput: <<>> or <<name, blob>>
    img,           \* decoded image; 0 is the empty cv::Mat
    inputBlob,     \* tensor built by blobFromImage
    prob,          \* output blob of the latest forward assigned to prob
    i,             \* loop counter of the for loop
    classId,       \* classNumber.x
    classProb,     \* maximum found by minMaxLoc
    fp,            \* std::ifstream: [open, rest, eof]
    classNames,    \* std::vector<cv::String> built by readClassNames
    out,           \* std::cout: sequence of printed lines
    err,           \* std::cerr: sequence of printed lines
    exitCode,      \* process exit status, meaningful when pc is "exit"/"returned"
    thrown,        \* exception in flight or uncaught: "" when none
    calls,         \* library calls made so far, in order
    loadOutcome,   \* how readNetFromCaffe ended: "", "ok", "throw", "empty"
    labelFile,     \* the label file as found on disk: [tried, exists, content]
    memo,          \* input/output pairs a deterministic network has produced
    firstOut,      \* output of the first forward call
    probCycle      \* number of the forward call whose output prob holds

vars == <<pc, args, net, bound, img, inputBlob, prob, i, classId, classProb,
          fp, classNames, out, err, exitCode, thrown, calls, loadOutcome,
          labelFile, memo, firstOut, probCycle>>

----------------------------------------------------------------------------
(* Bounds of the model *)

MaxFileLen == 6     \* longest label file of SpecLabels, in characters
OutLen == 2         \* number of classes in the network output
MaxProb == 1        \* largest output value (values are 0..MaxProb)
MaxImage == 1       \* number of distinct decodable images

(* Program constants *)

Repeats == 10       \* for (int i = 0; i < 10; i++)

LabelFileName == "synset_words.txt"
HintURL == "http://dl.caffe.berkeleyvision.org/bvlc_googlenet.caffemodel"

Alphabet == {"a", "b", " ", "\n"}

\* every label file of up to MaxFileLen characters
Files == UNION {[1..n -> Alphabet] : n \in 0..MaxFileLen}

\* line n of a synset file: an id, a space, a label of n characters, newline
NumberedLine(n) == <<"a", " ">> \o [k \in 1..n |-> "b"] \o <<"\n">>

RECURSIVE NumberedFile(_)
NumberedFile(n) == IF n = 0 THEN <<>> ELSE NumberedFile(n - 1) \o NumberedLine(n)

\* synset files of 0 .. OutLen + 1 classes
LabelFiles == { NumberedFile(n) : n \in 0..(OutLen + 1) }

\* command lines: the defaults of the params string, or every option given
CommandLines ==
    { [proto |-> "bvlc_googlenet.prototxt", model |-> "bvlc_googlenet.caffemodel",
       image |-> "space_shuttle.jpg", opencl |-> o] : o \in BOOLEAN }
    \cup
    { [proto |-> "my.prototxt", model |-> "my.caffemodel",
       image |-> "my.jpg", opencl |-> o] : o \in BOOLEAN }

\* 1 x OutLen output blobs of the network
Outputs == { <<v>> : v \in [1..OutLen -> 0..MaxProb] }

----------------------------------------------------------------------------
(* Helpers *)

Call(op, a) == [op |-> op, args |-> a]

Line(text, a) == [text |-> text, arg |-> a]

NoBlob == [image |-> 0, scale |-> 0, size |-> <<0, 0>>, mean |-> <<0, 0, 0>>, swapRB |-> FALSE]

\* cv::dnn::blobFromImage(img, 1.0f, Size(224,224), Scalar(104,117,123), false)
blobFromImage(m) ==
    [image |-> m, scale |-> 1, size |-> <<224, 224>>, mean |-> <<104, 117, 123>>,
     swapRB |-> FALSE]

\* std::string::npos is size_type(-1), i.e. 2^w - 1; size_type values are
\* kept as residues modulo 2^w, so npos is the residue -1 and npos + 1 is 0.
npos == -1

\* std::string::find(char): 0-based position of the first occurrence, or npos
Find(s, c) ==
    IF \E k \in 1..Len(s) : s[k] = c
    THEN (CHOOSE k \in 1..Len(s) : s[k] = c /\ \A j \in 1..(k-1) : s[j] # c) - 1
    ELSE npos

\* std::string::substr(pos): the characters from 0-based pos to the end
Substr(s, pos) == SubSeq(s, pos + 1, Len(s))

\* as LabelOf, cutting after the last space (rfind)
LabelOf_C5(name) ==
    IF \E k \in 1..Len(name) : name[k] = " "
    THEN SubSeq(name, 1 + CHOOSE k \in 1..Len(name) :
                             name[k] = " " /\ \A j \in (k+1)..Len(name) : name[j] # " ",
                Len(name))
    ELSE name

\* as LabelOf, without the wrap of npos + 1 to 0: the first character is cut
LabelOf_C7(name) ==
    IF Find(name, " ") = npos THEN Substr(name, 1) ELSE Substr(name, Find(name, " ") + 1)

\* name.substr(name.find(' ') + 1)
LabelOf(name) == Substr(name, Find(name, " ") + 1)

\* std::getline(fp, name) on the unread rest of the stream: the characters up
\* to the first newline (extracted and dropped) or up to end of file (eofbit)
GetLine(rest) ==
    IF Find(rest, "\n") # npos
    THEN [name |-> SubSeq(rest, 1, Find(rest, "\n")),
          rest |-> SubSeq(rest, Find(rest, "\n") + 2, Len(rest)),
          eof  |-> FALSE]
    ELSE [name |-> rest, rest |-> <<>>, eof |-> TRUE]

RECURSIVE Flatten(_)
\* prob.reshape(1, 1): one channel, one row
Flatten(m) == IF m = <<>> THEN <<>> ELSE Head(m) \o Flatten(Tail(m))

\* as MaxLocs, with the comparison reversed
MaxLocs_C4(v) == { k \in 1..Len(v) : \A j \in 1..Len(v) : v[k] <= v[j] }

\* cv::minMaxLoc: the positions (1-based here) holding the maximum
MaxLocs(v) == { k \in 1..Len(v) : \A j \in 1..Len(v) : v[k] >= v[j] }

\* outputs net.forward may return for the bound input
ForwardOutputs ==
    IF net.deterministic /\ \E m \in memo : m.input = bound
    THEN { (CHOOSE m \in memo : m.input = bound).output }
    ELSE Outputs

Called(op) == \E j \in 1..Len(calls) : calls[j].op = op

CountCalls(op) == Cardinality({ j \in 1..Len(calls) : calls[j].op = op })

----------------------------------------------------------------------------
Init ==
    /\ pc = "parse"
    /\ args = [proto |-> "", model |-> "", image |-> "", opencl |-> FALSE]
    /\ net = [empty |-> TRUE, deterministic |-> FALSE, target |-> "CPU"]
    /\ bound = <<>>
    /\ img = 0
    /\ inputBlob = NoBlob
    /\ prob = <<>>
    /\ i = 0
    /\ classId = 0
    /\ classProb = 0
    /\ fp = [open |-> FALSE, rest |-> <<>>, eof |-> FALSE]
    /\ classNames = <<>>
    /\ out = <<>>
    /\ err = <<>>
    /\ exitCode = 0
    /\ thrown = ""
    /\ calls = <<>>
    /\ loadOutcome = ""
    /\ labelFile = [tried |-> FALSE, exists |-> FALSE, content |-> <<>>]
    /\ memo = {}
    /\ firstOut = <<>>
    /\ probCycle = 0


----------------------------------------------------------------------------
(* doDnn *)

\* as ParseArgs, with the label list loaded right after the options
ParseArgs_C1 ==
    /\ pc = "parse"
    /\ \E cl \in CommandLines : args' = cl
    /\ pc' = "labels"
    /\ UNCHANGED <<net, bound, img, inputBlob, prob, i, classId, classProb, fp,
                   classNames, out, err, exitCode, thrown, calls, loadOutcome,
                   labelFile, memo, firstOut, probCycle>>

\* cv::CommandLineParser parser(argc, argv, params); parser.get<...>(...)
ParseArgs ==
    /\ pc = "parse"
    /\ \E cl \in CommandLines : args' = cl
    /\ pc' = "load"
    /\ UNCHANGED <<net, bound, img, inputBlob, prob, i, classId, classProb, fp,
                   classNames, out, err, exitCode, thrown, calls, loadOutcome,
                   labelFile, memo, firstOut, probCycle>>

\* as ReadNet, with the handle already filled in when the exception leaves
ReadNet_C10 ==
    /\ pc = "load"
    /\ calls' = Append(calls, Call("readNetFromCaffe", <<args.proto, args.model>>))
    /\ \E outcome \in {"ok", "empty", "throw"}, det \in BOOLEAN :
         /\ loadOutcome' = outcome
         /\ CASE outcome = "ok" ->
                   /\ net' = [empty |-> FALSE, deterministic |-> det, target |-> "CPU"]
                   /\ pc' = "target"
                   /\ thrown' = thrown
              [] outcome = "empty" ->
                   /\ det = FALSE
                   /\ net' = [empty |-> TRUE, deterministic |-> FALSE, target |-> "CPU"]
                   /\ pc' = "target"
                   /\ thrown' = thrown
              [] outcome = "throw" ->
                   /\ net' = [empty |-> FALSE, deterministic |-> det, target |-> "CPU"]
                   /\ pc' = "catch"
                   /\ thrown' = "cv::Exception"
    /\ UNCHANGED <<args, bound, img, inputBlob, prob, i, classId, classProb, fp,
                   classNames, out, err, exitCode, labelFile, memo, firstOut,
                   probCycle>>

\* cv::dnn::Net net; try { net = cv::dnn::readNetFromCaffe(modelTxt, modelBin); }
\* The library builds a network, returns an empty handle, or throws; when it
\* throws, the assignment to net does not take place.
ReadNet ==
    /\ pc = "load"
    /\ calls' = Append(calls, Call("readNetFromCaffe", <<args.proto, args.model>>))
    /\ \E outcome \in {"ok", "empty", "throw"}, det \in BOOLEAN :
         /\ loadOutcome' = outcome
         /\ CASE outcome = "ok" ->
                   /\ net' = [empty |-> FALSE, deterministic |-> det, target |-> "CPU"]
                   /\ pc' = "target"
                   /\ thrown' = thrown
              [] outcome = "empty" ->
                   /\ det = FALSE
                   /\ net' = [empty |-> TRUE, deterministic |-> FALSE, target |-> "CPU"]
                   /\ pc' = "target"
                   /\ thrown' = thrown
              [] outcome = "throw" ->
                   /\ det = FALSE
                   /\ net' = net
                   /\ pc' = "catch"
                   /\ thrown' = "cv::Exception"
    /\ UNCHANGED <<args, bound, img, inputBlob, prob, i, classId, classProb, fp,
                   classNames, out, err, exitCode, labelFile, memo, firstOut,
                   probCycle>>

LoadFailureLines ==
    << Line("Can't load network by using the following files: ", ""),
       Line("prototxt:   ", args.proto),
       Line("caffemodel: ", args.model),
       Line("bvlc_googlenet.caffemodel can be downloaded here:", ""),
       Line(HintURL, "") >>

\* catch (cv::Exception& e) { ...; if (net.empty()) { ...; exit(-1); } }
CatchLoad ==
    /\ pc = "catch"
    /\ thrown' = ""
    /\ IF net.empty
       THEN /\ err' = Append(err, Line("Exception: ", "e.what()")) \o LoadFailureLines
            /\ exitCode' = -1
            /\ pc' = "exit"
       ELSE /\ err' = Append(err, Line("Exception: ", "e.what()"))
            /\ exitCode' = exitCode
            /\ pc' = "target"
    /\ UNCHANGED <<args, net, bound, img, inputBlob, prob, i, classId, classProb,
                   fp, classNames, out, calls, loadOutcome, labelFile, memo,
                   firstOut, probCycle>>

\* as SelectTarget, without the test of the opencl option
SelectTarget_C9 ==
    /\ pc = "target"
    /\ calls' = Append(calls, Call("setPreferableTarget", <<"DNN_TARGET_OPENCL">>))
    /\ net' = [net EXCEPT !.target = "OPENCL"]
    /\ pc' = "imread"
    /\ UNCHANGED <<args, bound, img, inputBlob, prob, i, classId, classProb, fp,
                   classNames, out, err, exitCode, thrown, loadOutcome, labelFile,
                   memo, firstOut, probCycle>>

\* if (opencl) net.setPreferableTarget(cv::dnn::DNN_TARGET_OPENCL);
SelectTarget ==
    /\ pc = "target"
    /\ IF args.opencl
       THEN /\ calls' = Append(calls, Call("setPreferableTarget", <<"DNN_TARGET_OPENCL">>))
            /\ net' = [net EXCEPT !.target = "OPENCL"]
       ELSE UNCHANGED <<calls, net>>
    /\ pc' = "imread"
    /\ UNCHANGED <<args, bound, img, inputBlob, prob, i, classId, classProb, fp,
                   classNames, out, err, exitCode, thrown, loadOutcome, labelFile,
                   memo, firstOut, probCycle>>

\* as ReadImage, with the exit(-1) missing from the img.empty() branch
ReadImage_C3 ==
    /\ pc = "imread"
    /\ calls' = Append(calls, Call("imread", <<args.image>>))
    /\ \E m \in 0..MaxImage :
         /\ img' = m
         /\ err' = IF m = 0
                   THEN Append(err, Line("Can't read image from the file: ", args.image))
                   ELSE err
    /\ pc' = "blob"
    /\ UNCHANGED <<args, net, bound, inputBlob, prob, i, classId, classProb, fp,
                   classNames, out, exitCode, thrown, loadOutcome, labelFile, memo,
                   firstOut, probCycle>>

\* const auto img = imread(imageFile); if (img.empty()) { ...; exit(-1); }
ReadImage ==
    /\ pc = "imread"
    /\ calls' = Append(calls, Call("imread", <<args.image>>))
    /\ \E m \in 0..MaxImage :
         /\ img' = m
         /\ IF m = 0
            THEN /\ err' = Append(err, Line("Can't read image from the file: ", args.image))
                 /\ exitCode' = -1
                 /\ pc' = "exit"
            ELSE /\ pc' = "blob"
                 /\ UNCHANGED <<err, exitCode>>
    /\ UNCHANGED <<args, net, bound, inputBlob, prob, i, classId, classProb, fp,
                   classNames, out, thrown, loadOutcome, labelFile, memo, firstOut,
                   probCycle>>

\* const auto inputBlob = cv::dnn::blobFromImage(img, ...);
MakeBlob ==
    /\ pc = "blob"
    /\ calls' = Append(calls, Call("blobFromImage", <<img>>))
    /\ inputBlob' = blobFromImage(img)
    /\ pc' = "setInput0"
    /\ UNCHANGED <<args, net, bound, img, prob, i, classId, classProb, fp,
                   classNames, out, err, exitCode, thrown, loadOutcome, labelFile,
                   memo, firstOut, probCycle>>

\* as SetInputAt, the loop binding a tensor with red and blue swapped
SetInputAt_C8(from, to) ==
    /\ pc = from
    /\ LET blob == IF from = "loop" THEN [inputBlob EXCEPT !.swapRB = TRUE]
                   ELSE inputBlob IN
         /\ calls' = Append(calls, Call("setInput", <<"data", blob>>))
         /\ \E ok \in BOOLEAN :
              IF ok
              THEN /\ bound' = <<"data", blob>>
                   /\ pc' = to
                   /\ thrown' = thrown
              ELSE /\ bound' = bound
                   /\ pc' = "terminate"
                   /\ thrown' = "cv::Exception"

\* net.setInput(inputBlob, "data") at position from, continuing at position to.
\* The library may throw; nothing in doDnn or main catches it.
SetInputAt(from, to) ==
    /\ pc = from
    /\ calls' = Append(calls, Call("setInput", <<"data", inputBlob>>))
    /\ \E ok \in BOOLEAN :
         IF ok
         THEN /\ bound' = <<"data", inputBlob>>
              /\ pc' = to
              /\ thrown' = thrown
         ELSE /\ bound' = bound
              /\ pc' = "terminate"
              /\ thrown' = "cv::Exception"

\* net.forward("prob") at position from, its result assigned to prob
ForwardAt(from, to) ==
    /\ pc = from
    /\ calls' = Append(calls, Call("forward", <<"prob">>))
    /\ \E ok \in BOOLEAN :
         IF ok
         THEN /\ \E o \in ForwardOutputs :
                   /\ prob' = o
                   /\ memo' = IF net.deterministic
                              THEN memo \cup {[input |-> bound, output |-> o]}
                              ELSE memo
                   /\ firstOut' = IF CountCalls("forward") = 0 THEN o ELSE firstOut
              /\ probCycle' = CountCalls("forward") + 1
              /\ pc' = to
              /\ thrown' = thrown
         ELSE /\ UNCHANGED <<prob, memo, firstOut, probCycle>>
              /\ pc' = "terminate"
              /\ thrown' = "cv::Exception"

\* net.setInput(inputBlob, "data");   (before the loop)
SetInputFirst ==
    /\ SetInputAt("setInput0", "forward0")
    /\ UNCHANGED <<args, net, img, inputBlob, prob, i, classId, classProb, fp,
                   classNames, out, err, exitCode, loadOutcome, labelFile, memo,
                   firstOut, probCycle>>

\* auto prob = net.forward("prob");   for (int i = 0; ...
ForwardFirst ==
    /\ ForwardAt("forward0", "loop")
    /\ i' = 0
    /\ UNCHANGED <<args, net, bound, img, inputBlob, classId, classProb, fp,
                   classNames, out, err, exitCode, loadOutcome, labelFile>>

\* i < 10:  net.setInput(inputBlob, "data");
LoopSetInput ==
    /\ i < Repeats
    /\ SetInputAt("loop", "forward")
    /\ UNCHANGED <<args, net, img, inputBlob, prob, i, classId, classProb, fp,
                   classNames, out, err, exitCode, loadOutcome, labelFile, memo,
                   firstOut, probCycle>>

\* prob = net.forward("prob");  i++
LoopForward ==
    /\ ForwardAt("forward", "loop")
    /\ i' = i + 1
    /\ UNCHANGED <<args, net, bound, img, inputBlob, classId, classProb, fp,
                   classNames, out, err, exitCode, loadOutcome, labelFile>>

\* !(i < 10): probMat = prob.reshape(1, 1); cv::minMaxLoc(probMat, NULL,
\* &classProb, NULL, &classNumber); classId = classNumber.x (0-based column)
MinMaxLoc ==
    /\ pc = "loop"
    /\ ~(i < Repeats)
    /\ calls' = Append(calls, Call("minMaxLoc", <<>>))
    /\ \E k \in MaxLocs(Flatten(prob)) :
         /\ classId' = k - 1
         /\ classProb' = Flatten(prob)[k]
    /\ pc' = "labels"
    /\ UNCHANGED <<args, net, bound, img, inputBlob, prob, i, fp, classNames, out,
                   err, exitCode, thrown, loadOutcome, labelFile, memo, firstOut,
                   probCycle>>

----------------------------------------------------------------------------
(* readClassNames("synset_words.txt") *)

\* std::ifstream fp(filename); if (!fp.is_open()) { ...; exit(-1); }
\* std::vector<cv::String> classNames;
OpenLabelsFrom(files) ==
    /\ pc = "labels"
    /\ \E f \in {[tried |-> TRUE, exists |-> FALSE, content |-> <<>>]}
                \cup {[tried |-> TRUE, exists |-> TRUE, content |-> c] : c \in files} :
         /\ labelFile' = f
         /\ IF f.exists
            THEN /\ fp' = [open |-> TRUE, rest |-> f.content, eof |-> FALSE]
                 /\ pc' = "readLoop"
                 /\ UNCHANGED <<err, exitCode>>
            ELSE /\ fp' = fp
                 /\ err' = Append(err, Line("File with classes labels not found: ",
                                            LabelFileName))
                 /\ exitCode' = -1
                 /\ pc' = "exit"
    /\ classNames' = <<>>
    /\ UNCHANGED <<args, net, bound, img, inputBlob, prob, i, classId, classProb,
                   out, thrown, calls, loadOutcome, memo, firstOut, probCycle>>

\* readClassNames on a synset file of whole lines
OpenLabels == OpenLabelsFrom(LabelFiles)

\* readClassNames on an arbitrary file
OpenAnyLabels == OpenLabelsFrom(Files)

\* while (!fp.eof()) { std::getline(fp, name);
\*     if (name.length()) classNames.push_back(name.substr(name.find(' ') + 1)); }
ReadLine ==
    /\ pc = "readLoop"
    /\ ~fp.eof
    /\ LET g == GetLine(fp.rest) IN
         /\ fp' = [fp EXCEPT !.rest = g.rest, !.eof = g.eof]
         /\ classNames' = IF Len(g.name) # 0
                          THEN Append(classNames, LabelOf(g.name))
                          ELSE classNames
    /\ UNCHANGED <<pc, args, net, bound, img, inputBlob, prob, i, classId,
                   classProb, out, err, exitCode, thrown, calls, loadOutcome,
                   labelFile, memo, firstOut, probCycle>>

\* fp.eof(): fp.close(); return classNames;
CloseLabels ==
    /\ pc = "readLoop"
    /\ fp.eof
    /\ fp' = [fp EXCEPT !.open = FALSE]
    /\ pc' = "report"
    /\ UNCHANGED <<args, net, bound, img, inputBlob, prob, i, classId, classProb,
                   classNames, out, err, exitCode, thrown, calls, loadOutcome,
                   labelFile, memo, firstOut, probCycle>>

----------------------------------------------------------------------------
(* the result lines and the return from main *)

\* as Report, with classNames[classId] in place of classNames.at(classId):
\* an index past the end reads whatever lies behind the vector
Report_C6 ==
    /\ pc = "report"
    /\ \E lbl \in IF classId < Len(classNames)
                  THEN {classNames[classId + 1]} ELSE {<<"a">>, <<>>} :
         out' = out \o << [text |-> "Best class: #", num |-> classId, label |-> lbl],
                          [text |-> "Probability: ", num |-> classProb * 100,
                           label |-> <<>>] >>
    /\ exitCode' = 0
    /\ pc' = "returned"
    /\ thrown' = thrown
    /\ UNCHANGED <<args, net, bound, img, inputBlob, prob, i, classId, classProb,
                   fp, classNames, err, calls, loadOutcome, labelFile, memo,
                   firstOut, probCycle>>

\* std::cout << "Best class: #" << classId << " '" << classNames.at(classId) ...
\* std::cout << "Probability: " << classProb * 100 << "%" ...;  return 0;
\* std::vector::at throws std::out_of_range for classId >= size(); nothing
\* catches it.  Whether the text before the label has reached the stream when
\* at() throws depends on the evaluation order and buffering of the build.
Report ==
    /\ pc = "report"
    /\ IF classId < Len(classNames)
       THEN /\ out' = out \o << [text |-> "Best class: #", num |-> classId,
                                 label |-> classNames[classId + 1]],
                                [text |-> "Probability: ", num |-> classProb * 100,
                                 label |-> <<>>] >>
            /\ exitCode' = 0
            /\ pc' = "returned"
            /\ thrown' = thrown
       ELSE /\ \E partial \in BOOLEAN :
                 out' = IF partial
                        THEN Append(out, [text |-> "Best class: #", num |-> classId,
                                          label |-> <<>>])
                        ELSE out
            /\ exitCode' = exitCode
            /\ pc' = "terminate"
            /\ thrown' = "std::out_of_range"
    /\ UNCHANGED <<args, net, bound, img, inputBlob, prob, i, classId, classProb,
                   fp, classNames, err, calls, loadOutcome, labelFile, memo,
                   firstOut, probCycle>>

Next ==
    \/ ParseArgs
    \/ ReadNet
    \/ CatchLoad
    \/ SelectTarget
    \/ ReadImage
    \/ MakeBlob
    \/ SetInputFirst
    \/ ForwardFirst
    \/ LoopSetInput
    \/ LoopForward
    \/ MinMaxLoc
    \/ OpenLabels
    \/ ReadLine
    \/ CloseLabels
    \/ Report

Spec == Init /\ [][Next]_vars

----------------------------------------------------------------------------
(* readClassNames on arbitrary label files, started from the state of a run *)
(* of Spec that has just left the inference step: default options, a        *)
(* deterministic network, the last class the most probable one.             *)

DefaultArgs ==
    [proto |-> "bvlc_googlenet.prototxt", model |-> "bvlc_googlenet.caffemodel",
     image |-> "space_shuttle.jpg", opencl |-> FALSE]

PeakOutput == << [j \in 1..OutLen |-> IF j = OutLen THEN MaxProb ELSE 0] >>

InferenceCalls ==
    << Call("readNetFromCaffe", <<DefaultArgs.proto, DefaultArgs.model>>),
       Call("imread", <<DefaultArgs.image>>),
       Call("blobFromImage", <<1>>) >>
    \o [j \in 1..(2 * (Repeats + 1)) |->
          IF j % 2 = 1 THEN Call("setInput", <<"data", blobFromImage(1)>>)
          ELSE Call("forward", <<"prob">>)]
    \o << Call("minMaxLoc", <<>>) >>

InitLabels ==
    /\ pc = "labels"
    /\ args = DefaultArgs
    /\ net = [empty |-> FALSE, deterministic |-> TRUE, target |-> "CPU"]
    /\ bound = <<"data", blobFromImage(1)>>
    /\ img = 1
    /\ inputBlob = blobFromImage(1)
    /\ prob = PeakOutput
    /\ i = Repeats
    /\ classId = OutLen - 1
    /\ classProb = MaxProb
    /\ fp = [open |-> FALSE, rest |-> <<>>, eof |-> FALSE]
    /\ classNames = <<>>
    /\ out = <<>>
    /\ err = <<>>
    /\ exitCode = 0
    /\ thrown = ""
    /\ calls = InferenceCalls
    /\ loadOutcome = "ok"
    /\ labelFile = [tried |-> FALSE, exists |-> FALSE, content |-> <<>>]
    /\ memo = {[input |-> <<"data", blobFromImage(1)>>, output |-> PeakOutput]}
    /\ firstOut = PeakOutput
    /\ probCycle = Repeats + 1

NextLabels ==
    \/ OpenAnyLabels
    \/ ReadLine
    \/ CloseLabels
    \/ Report

SpecLabels == InitLabels /\ [][NextLabels]_vars

\* the start of SpecLabels is not a state of Spec (violated: it is one)
InitLabelsUnreachable == ~InitLabels

----------------------------------------------------------------------------
(* Vocabulary of the properties.  The label file is described here by its   *)
(* lines, independently of the stream operations used by readClassNames.   *)

ErrArg(a) == \E j \in 1..Len(err) : err[j].arg = a

ErrText(t) == \E j \in 1..Len(err) : err[j].text = t

HasChar(s, c) == \E k \in 1..Len(s) : s[k] = c

FirstPos(s, c) == CHOOSE k \in 1..Len(s) : s[k] = c /\ \A j \in 1..(k-1) : s[j] # c

RECURSIVE SplitLines(_)
SplitLines(s) ==
    IF HasChar(s, "\n")
    THEN <<SubSeq(s, 1, FirstPos(s, "\n") - 1)>>
         \o SplitLines(SubSeq(s, FirstPos(s, "\n") + 1, Len(s)))
    ELSE <<s>>

IsNonEmpty(l) == l # <<>>

NonEmptyLines(s) == SelectSeq(SplitLines(s), IsNonEmpty)

AfterFirstSpace(l) == SubSeq(l, FirstPos(l, " ") + 1, Len(l))

\* "<id> <label>": a non-empty id without a space, a space, the label
WellFormed(l) == l # <<>> /\ l[1] # " " /\ HasChar(l, " ")

FileLines == NonEmptyLines(labelFile.content)

LabelOpenFailed == labelFile.tried /\ ~labelFile.exists

\* readClassNames has returned
ReadDone == labelFile.exists /\ pc \in {"report", "returned", "terminate"}

\* the lookup classNames.at(classId) has been made
LookedUp == labelFile.exists /\ pc \in {"returned", "terminate"}

LoadFailed == loadOutcome \in {"throw", "empty"}

LoadMessage ==
    /\ ErrText("prototxt:   ") /\ ErrArg(args.proto)
    /\ ErrText("caffemodel: ") /\ ErrArg(args.model)
    /\ ErrText(HintURL)

ImageEmpty == Called("imread") /\ img = 0

\* the target-selection step of doDnn is behind
PastTarget ==
    \/ pc \in {"imread", "blob", "setInput0", "forward0", "loop", "forward",
               "labels", "readLoop", "report", "returned"}
    \/ pc \in {"exit", "terminate"} /\ Called("imread")

----------------------------------------------------------------------------
(* Properties *)

\* C1 (as stated): when the label file cannot be opened the program exits
\* with status -1 and a message naming the file, and no model load, image
\* decode or forward pass has been attempted in that run.
C1_LabelsBeforeModel ==
    LabelOpenFailed =>
        /\ pc = "exit" /\ exitCode = -1 /\ ErrArg(LabelFileName)
        /\ ~Called("readNetFromCaffe") /\ ~Called("imread") /\ ~Called("forward")

\* C1 (amended): when the label file cannot be opened the program exits with
\* status -1 and a message naming the file, without printing a result line;
\* the label file is opened only after the model load, the image decode and
\* all Repeats + 1 forward passes.
C1_LabelsLast ==
    /\ LabelOpenFailed =>
         /\ pc = "exit" /\ exitCode = -1 /\ ErrArg(LabelFileName)
         /\ out = <<>>
    /\ labelFile.tried =>
         /\ Called("readNetFromCaffe") /\ Called("imread")
         /\ CountCalls("forward") = Repeats + 1

C1_Witness == LabelOpenFailed /\ pc = "exit"

\* C2 (as stated): whenever the proto/weights pair fails to load, by an
\* exception or by an empty handle, the program prints both paths and the
\* hint URL and exits with status -1 before any image decode, setInput or
\* forward call.
C2_LoadFailureIsFatal ==
    LoadFailed =>
        /\ ~Called("imread") /\ ~Called("setInput") /\ ~Called("forward")
        /\ pc \in {"exit", "returned", "terminate"} =>
              pc = "exit" /\ exitCode = -1 /\ LoadMessage

\* C3: when imread returns an empty image the program prints a message with
\* the image filename and exits with status -1 at once: no tensor is built,
\* no setInput or forward is called, the label file is not opened and no
\* result line is printed.
C3_EmptyImageIsFatal ==
    ImageEmpty =>
        /\ pc = "exit" /\ exitCode = -1
        /\ ErrText("Can't read image from the file: ") /\ ErrArg(args.image)
        /\ ~Called("blobFromImage") /\ inputBlob = NoBlob
        /\ ~Called("setInput") /\ ~Called("forward")
        /\ ~labelFile.tried /\ ~fp.open
        /\ out = <<>>

C3_Witness == ImageEmpty /\ pc = "exit" /\ loadOutcome = "ok"

\* C4: when the model loads, the image decodes, the label file opens and the
\* label list is at least as long as the output vector, the program prints
\* index k and the label at index k of the loaded list, where k is an arg-max
\* index of the flattened output of the last forward pass, and the
\* probability printed is the value at k times 100.
C4_ReportsArgMax ==
    ( /\ loadOutcome = "ok" /\ img # 0 /\ LookedUp
      /\ Len(classNames) >= Len(Flatten(prob)) )
    => LET v == Flatten(prob) IN
         /\ pc = "returned" /\ exitCode = 0
         /\ probCycle = Repeats + 1
         /\ Len(out) = 2
         /\ out[1].text = "Best class: #"
         /\ out[1].num \in 0..(Len(v) - 1)
         /\ \A j \in 1..Len(v) : v[out[1].num + 1] >= v[j]
         /\ out[1].label = classNames[out[1].num + 1]
         /\ out[2].text = "Probability: "
         /\ out[2].num = v[out[1].num + 1] * 100

C4_Witness ==
    /\ loadOutcome = "ok" /\ img # 0 /\ LookedUp
    /\ Len(classNames) >= Len(Flatten(prob))
    /\ pc = "returned"
    /\ out[1].num = 1
    /\ classNames[1] # classNames[2]
    /\ Flatten(prob)[1] # Flatten(prob)[2]

\* C5: readClassNames returns one entry per non-empty line of the file, in
\* file order, entry i being what follows the first space of line i, when
\* every non-empty line contains a space; empty lines give no entry.
C5_LabelsOfLines ==
    ( ReadDone /\ \A n \in 1..Len(FileLines) : HasChar(FileLines[n], " ") )
    => /\ Len(classNames) = Len(FileLines)
       /\ \A n \in 1..Len(FileLines) : classNames[n] = AfterFirstSpace(FileLines[n])

C5_Witness ==
    /\ ReadDone
    /\ Len(FileLines) = 2
    /\ \A n \in 1..Len(FileLines) : WellFormed(FileLines[n])
    /\ FileLines[1] # FileLines[2]

\* C6 (as stated): when the arg-max index is at or beyond the length of the
\* label list, the lookup goes unchecked: the program does not detect the
\* out-of-range index before or during the lookup.
C6_LookupUndetected ==
    (LookedUp /\ classId >= Len(classNames)) => thrown # "std::out_of_range"

\* C6 (amended): when the arg-max index is at or beyond the length of the
\* label list, the lookup classNames.at(classId) detects it and throws
\* std::out_of_range; nothing catches it, so the process is terminated
\* abnormally having printed neither a label nor the probability line.
C6_LookupThrows ==
    (LookedUp /\ classId >= Len(classNames)) =>
        /\ pc = "terminate" /\ thrown = "std::out_of_range"
        /\ Len(out) <= 1
        /\ \A j \in 1..Len(out) : out[j].text = "Best class: #" /\ out[j].label = <<>>

C6_Witness ==
    /\ LookedUp /\ classId >= Len(classNames) /\ Len(classNames) > 0
    /\ pc = "terminate"

\* C7 (as stated): a non-empty line without a space is appended with its
\* first character removed.
C7_FirstCharRemoved ==
    ReadDone =>
        \A n \in 1..Len(FileLines) :
            /\ n <= Len(classNames)
            /\ ~HasChar(FileLines[n], " ") => classNames[n] = Tail(FileLines[n])

\* C7 (amended): a non-empty line without a space is appended whole
\* (find returns npos and npos + 1 wraps to 0).
C7_WholeLineKept ==
    ReadDone =>
        \A n \in 1..Len(FileLines) :
            /\ n <= Len(classNames)
            /\ ~HasChar(FileLines[n], " ") => classNames[n] = FileLines[n]

C7_Witness ==
    /\ ReadDone
    /\ \E n \in 1..Len(FileLines) :
         ~HasChar(FileLines[n], " ") /\ Len(FileLines[n]) >= 2

\* C8: every forward call directly follows a setInput of the unchanged
\* inputBlob on input "data"; a run that gets through the inference step has
\* made exactly Repeats + 1 setInput/forward cycles, the arg-max is taken
\* over the output of the last one, and for a deterministic network that
\* output is the output of the first cycle.
C8_ElevenCycles ==
    /\ \A j \in 1..Len(calls) :
         calls[j].op = "forward" =>
             j > 1 /\ calls[j - 1] = Call("setInput", <<"data", inputBlob>>)
    /\ CountCalls("forward") <= Repeats + 1
    /\ Called("minMaxLoc") =>
         /\ CountCalls("forward") = Repeats + 1
         /\ CountCalls("setInput") = Repeats + 1
         /\ probCycle = Repeats + 1
         /\ classId + 1 \in 1..Len(Flatten(prob))
         /\ \A j \in 1..Len(Flatten(prob)) :
              Flatten(prob)[classId + 1] >= Flatten(prob)[j]
         /\ classProb = Flatten(prob)[classId + 1]
         /\ net.deterministic => prob = firstOut

C8_Witness ==
    /\ Called("minMaxLoc") /\ net.deterministic /\ i = Repeats
    /\ Flatten(prob)[1] # Flatten(prob)[2]

\* C9: setPreferableTarget(OpenCL) is called if and only if the opencl option
\* is true, once the model-load step is behind; it is called at most once,
\* directly after readNetFromCaffe and before imread, setInput and forward;
\* with the option false it is never called.
C9_TargetIffOpencl ==
    /\ CountCalls("setPreferableTarget") <= 1
    /\ ~args.opencl => ~Called("setPreferableTarget")
    /\ net.target = "OPENCL" <=> Called("setPreferableTarget")
    /\ PastTarget => (Called("setPreferableTarget") <=> args.opencl)
    /\ \A j \in 1..Len(calls) :
         calls[j].op = "setPreferableTarget" =>
             /\ j = 2 /\ calls[1].op = "readNetFromCaffe"
             /\ loadOutcome \in {"ok", "empty"}

C9_Witness ==
    /\ Called("setPreferableTarget") /\ args.opencl
    /\ Called("imread") /\ Called("forward")

\* C10: inside the catch block the handle is still the empty default one, so
\* a run in which readNetFromCaffe throws ends with exit(-1) after the paths
\* and the hint URL are printed; it never continues past the catch block.
C10_CatchAlwaysExits ==
    /\ pc = "catch" => net.empty /\ loadOutcome = "throw"
    /\ loadOutcome = "throw" =>
         /\ pc \in {"catch", "exit"}
         /\ Len(calls) = 1
         /\ pc = "exit" => exitCode = -1 /\ LoadMessage /\ net.empty

C10_Witness == loadOutcome = "throw" /\ pc = "exit" /\ ErrText("Exception: ")

====
